---- MODULE Spec2Model ----
(***************************************************************************)
(* QuantPro terminal (src/main.py): the SmartQuantEngine (fetch_data       *)
(* behind st.cache_data, apply_technicals) and the Streamlit script's      *)
(* session state, sidebar handlers and page routing.                       *)
(*                                                                         *)
(* Strings are tuples of one-character strings, so that strip(), upper(),  *)
(* the "." test and the ".NS" suffix are computed character by character.  *)
(* A table (DataFrame) is a record [cols, bars]: cols the column labels,   *)
(* each a tuple of header levels, bars the rows in index order.            *)
(***************************************************************************)
EXTENDS Integers, Sequences, FiniteSets, TLC

VARIABLES
    app_state,      \* st.session_state.app_state
    watchlist,      \* st.session_state.watchlist
    active_ticker,  \* st.session_state.active_ticker
    interval,       \* value of the Timeframe selectbox
    cache,          \* entries of st.cache_data for fetch_data
    call,           \* the last invocation of fetch_data: arguments, requests, return
    page,           \* what the last script run rendered
    event,          \* the widget interaction that started the last script run
    tech            \* the last invocation of apply_technicals: input and output

vars == <<app_state, watchlist, active_ticker, interval, cache, call, page, event, tech>>

(***************************************************************************)
(* Strings                                                                 *)
(***************************************************************************)
RELIANCE == <<"R", "E", "L", "I", "A", "N", "C", "E">>
ZOMATO == <<"Z", "O", "M", "A", "T", "O">>
TCS == <<"T", "C", "S">>
IRFC == <<"I", "R", "F", "C">>

\* str.upper() on one character, for the letters the inputs use.
UpperChar(c) ==
    CASE c = "a" -> "A"
      [] c = "b" -> "B"
      [] c = "c" -> "C"
      [] c = "s" -> "S"
      [] c = "t" -> "T"
      [] OTHER -> c

StrUpper(s) == [i \in 1..Len(s) |-> UpperChar(s[i])]

IsSpace(c) == c = " "

RECURSIVE LStrip(_)
LStrip(s) == IF s # <<>> /\ IsSpace(Head(s)) THEN LStrip(Tail(s)) ELSE s

RECURSIVE RStrip(_)
RStrip(s) ==
    IF s # <<>> /\ IsSpace(s[Len(s)]) THEN RStrip(SubSeq(s, 1, Len(s) - 1)) ELSE s

\* str.strip()
Strip(s) == RStrip(LStrip(s))

\* "." in query
HasDot(s) == \E i \in 1..Len(s) : s[i] = "."

DotNS == <<".", "N", "S">>

\* query = user_input.strip().upper()
Normalize(user_input) == StrUpper(Strip(user_input))

(***************************************************************************)
(* Tables                                                                  *)
(***************************************************************************)
Fields == <<"Close", "High", "Low", "Open", "Volume">>

\* pd.DataFrame()
EmptyDF == [cols |-> <<>>, bars |-> <<>>]

\* df.empty
IsEmpty(df) == Len(df.bars) = 0 \/ Len(df.cols) = 0

\* isinstance(df.columns, pd.MultiIndex)
IsMultiIndex(df) == \E i \in 1..Len(df.cols) : Len(df.cols[i]) > 1

\* The table yf.download returns for `ticker`: flat field names, or the
\* two-level header (field, ticker).
ProviderTable(ticker, levels, bars) ==
    [cols |-> [i \in 1..Len(Fields) |->
                  IF levels = 2 THEN <<Fields[i], ticker>> ELSE <<Fields[i]>>],
     bars |-> bars]

\* Mutant: the header is left as the provider sent it.
FlattenKeep(df) == df

\* df.columns = df.columns.get_level_values(0), when the header is a MultiIndex
Flatten(df) ==
    IF IsMultiIndex(df)
    THEN [df EXCEPT !.cols = [i \in 1..Len(df.cols) |-> <<df.cols[i][1]>>]]
    ELSE df

(***************************************************************************)
(* fetch_data                                                              *)
(***************************************************************************)
\* Mutant: the raw form is tried before the qualified one.
possible_tickers_raw_first(query) ==
    IF ~HasDot(query) THEN <<query, query \o DotNS>> ELSE <<query>>

\* possible_tickers = [query]; insert(0, query + ".NS") when "." not in query
possible_tickers(query) ==
    IF ~HasDot(query) THEN <<query \o DotNS, query>> ELSE <<query>>

\* period = "60d" if interval in ["15m", "1h"] else "max"
PeriodFor(ivl) == IF ivl \in {"15m", "1h"} THEN "60d" ELSE "max"

\* One yf.download call as the loop sees it. r is what the provider does:
\* [kind, levels, bars] with kind "throw" or "ok"; an "ok" answer with no bars
\* is the empty table.
Download(ticker, r) ==
    IF Len(r.bars) = 0 THEN EmptyDF ELSE ProviderTable(ticker, r.levels, r.bars)

\* The request as logged: what was asked, and what came back (header is the
\* number of header levels of a non-empty answer, 0 otherwise).
Request(ticker, ivl, r) ==
    [ticker |-> ticker, interval |-> ivl, period |-> PeriodFor(ivl),
     result |-> IF r.kind = "throw" THEN "throw"
                ELSE IF Len(r.bars) = 0 THEN "empty" ELSE "data",
     header |-> IF r.kind = "throw" \/ Len(r.bars) = 0 THEN 0 ELSE r.levels]

\* Mutant: an exception of one candidate is swallowed and the loop goes on.
RECURSIVE CandidateLoopSwallow(_, _, _, _, _)
CandidateLoopSwallow(tickers, resp, ivl, i, st) ==
    IF i > Len(tickers) THEN st
    ELSE LET t == tickers[i]
             r == resp[i]
             q == Append(st.queried, Request(t, ivl, r))
         IN  IF r.kind = "throw"
             THEN CandidateLoopSwallow(tickers, resp, ivl, i + 1,
                                       [st EXCEPT !.queried = q])
             ELSE LET df == Download(t, r)
                  IN  IF ~IsEmpty(df)
                      THEN [st EXCEPT !.queried = q, !.df = df, !.final_symbol = t]
                      ELSE CandidateLoopSwallow(tickers, resp, ivl, i + 1,
                                                [st EXCEPT !.queried = q, !.df = df])

\* for ticker in possible_tickers: download; if not df.empty: final_symbol = ticker; break
\* st = [queried, df, final_symbol, raised]; an exception leaves the loop at once.
RECURSIVE CandidateLoop(_, _, _, _, _)
CandidateLoop(tickers, resp, ivl, i, st) ==
    IF i > Len(tickers) THEN st
    ELSE LET t == tickers[i]
             r == resp[i]
             q == Append(st.queried, Request(t, ivl, r))
         IN  IF r.kind = "throw"
             THEN [st EXCEPT !.queried = q, !.raised = TRUE]
             ELSE LET df == Download(t, r)
                  IN  IF ~IsEmpty(df)
                      THEN [st EXCEPT !.queried = q, !.df = df, !.final_symbol = t]
                      ELSE CandidateLoop(tickers, resp, ivl, i + 1,
                                         [st EXCEPT !.queried = q, !.df = df])

\* A return value of fetch_data: (None, symbol) or (df, symbol); raised marks an
\* exception that leaves the function.
Failure(symbol) == [isNone |-> TRUE, df |-> EmptyDF, symbol |-> symbol, raised |-> FALSE]
Success(df, symbol) == [isNone |-> FALSE, df |-> df, symbol |-> symbol, raised |-> FALSE]

\* Mutant: no handler, the exception propagates to the caller.
ExceptPropagate(user_input) ==
    [isNone |-> TRUE, df |-> EmptyDF, symbol |-> user_input, raised |-> TRUE]

\* except Exception: return None, user_input
ExceptHandler(user_input) == Failure(user_input)

\* The body of fetch_data: [ret, queried].
FetchBody(user_input, ivl, resp) ==
    LET query == Normalize(user_input)
        st == CandidateLoop(possible_tickers(query), resp, ivl, 1,
                            [queried |-> <<>>, df |-> EmptyDF,
                             final_symbol |-> query, raised |-> FALSE])
    IN  [queried |-> st.queried,
         ret |-> IF st.raised THEN ExceptHandler(user_input)
                 ELSE IF IsEmpty(st.df) THEN Failure(query)
                 ELSE Success(Flatten(st.df), st.final_symbol)]

(***************************************************************************)
(* st.cache_data(ttl=60) around fetch_data                                 *)
(***************************************************************************)
\* ttl=60, in seconds
TTL == 60

\* Seconds that pass in one Tick.
TickStep == 30

\* The cache key: the arguments of the call, as passed.
CacheKey(user_input, ivl) == <<user_input, ivl>>

\* Mutant: entries are never served.
CacheHitNever(c, key) == FALSE

\* An entry for the key that is younger than the ttl.
CacheHit(c, key) == key \in DOMAIN c /\ c[key].age < TTL

\* One call of the cached fetch_data on cache c: [hit, queried, ret, cache].
\* An entry records the value returned and, as bookkeeping, the number of
\* provider requests that produced it. A call that raises stores nothing.
CachedFetch(c, user_input, ivl, resp) ==
    LET key == CacheKey(user_input, ivl)
    IN  IF CacheHit(c, key)
        THEN [hit |-> TRUE, queried |-> <<>>, ret |-> c[key].value, cache |-> c]
        ELSE LET b == FetchBody(user_input, ivl, resp)
             IN  [hit |-> FALSE, queried |-> b.queried, ret |-> b.ret,
                  cache |-> IF b.ret.raised THEN c
                            ELSE (key :> [value |-> b.ret, age |-> 0,
                                          requests |-> Len(b.queried)]) @@ c]

CallRecord(user_input, ivl, f) ==
    [made |-> TRUE, user_input |-> user_input, interval |-> ivl, hit |-> f.hit,
     queried |-> f.queried, ret |-> f.ret]

NoCall ==
    [made |-> FALSE, user_input |-> <<>>, interval |-> "", hit |-> FALSE,
     queried |-> <<>>, ret |-> Failure(<<>>)]

\* Time passes: every entry ages, and an entry that reaches the ttl is dropped.
Tick ==
    /\ cache # <<>>
    /\ LET keep == {k \in DOMAIN cache : cache[k].age + TickStep < TTL}
       IN  cache' = [k \in keep |-> [cache[k] EXCEPT !.age = @ + TickStep]]
    /\ UNCHANGED <<app_state, watchlist, active_ticker, interval, call, page, event, tech>>

(***************************************************************************)
(* Floating-point values of the indicator columns: a finite rational n/d   *)
(* (d > 0), an infinity, or NaN (undefined).                               *)
(***************************************************************************)
Fin(n, d) == [k |-> "fin", n |-> n, d |-> d]
NaN == [k |-> "nan", n |-> 0, d |-> 1]
Inf == [k |-> "inf", n |-> 1, d |-> 1]

\* a / b on non-negative operands: x/0 is infinite for x > 0 and NaN for x = 0.
FDiv(a, b) ==
    IF a.k = "nan" \/ b.k = "nan" THEN NaN
    ELSE IF a.k = "inf" THEN (IF b.k = "inf" THEN NaN ELSE Inf)
    ELSE IF b.k = "inf" THEN Fin(0, 1)
    ELSE IF b.n = 0 THEN (IF a.n = 0 THEN NaN ELSE Inf)
    ELSE Fin(a.n * b.d, a.d * b.n)

FAdd(a, b) ==
    IF a.k = "nan" \/ b.k = "nan" THEN NaN
    ELSE IF a.k = "inf" \/ b.k = "inf" THEN Inf
    ELSE Fin(a.n * b.d + b.n * a.d, a.d * b.d)

\* a - b for finite b
FSub(a, b) ==
    IF a.k = "nan" \/ b.k = "nan" THEN NaN
    ELSE IF a.k = "inf" THEN Inf
    ELSE Fin(a.n * b.d - b.n * a.d, a.d * b.d)

IsDefined(x) == x.k # "nan"

(***************************************************************************)
(* apply_technicals                                                        *)
(***************************************************************************)
\* rolling(window=14)
RSIWindow == 14
\* rolling(window=252, min_periods=1)
Window52 == 252
MinPeriods52 == 1

RECURSIVE SumRange(_, _, _)
SumRange(x, lo, hi) == IF lo > hi THEN 0 ELSE x[hi] + SumRange(x, lo, hi - 1)

\* max / min of x[lo..hi], lo <= hi
MaxRange(x, lo, hi) ==
    LET S == {x[j] : j \in lo..hi} IN CHOOSE m \in S : \A y \in S : y <= m

MinRange(x, lo, hi) ==
    LET S == {x[j] : j \in lo..hi} IN CHOOSE m \in S : \A y \in S : m <= y

\* First row of the trailing window that ends at row i (rows count from 1).
WindowStart(i, window) == IF i - window + 1 < 1 THEN 1 ELSE i - window + 1

\* x.rolling(window).mean(): min_periods is the window, NaN until it is full.
RollingMean(x, window) ==
    [i \in 1..Len(x) |->
        IF i < window THEN NaN ELSE Fin(SumRange(x, i - window + 1, i), window)]

\* Mutant: the window reaches one row further back.
RollingMaxWide(x, window, minp) ==
    [i \in 1..Len(x) |->
        LET lo == WindowStart(i, window + 1)
        IN  IF i - lo + 1 < minp THEN NaN ELSE Fin(MaxRange(x, lo, i), 1)]

\* x.rolling(window, min_periods=minp).max()
RollingMax(x, window, minp) ==
    [i \in 1..Len(x) |->
        LET lo == WindowStart(i, window)
        IN  IF i - lo + 1 < minp THEN NaN ELSE Fin(MaxRange(x, lo, i), 1)]

\* x.rolling(window, min_periods=minp).min()
RollingMin(x, window, minp) ==
    [i \in 1..Len(x) |->
        LET lo == WindowStart(i, window)
        IN  IF i - lo + 1 < minp THEN NaN ELSE Fin(MinRange(x, lo, i), 1)]

\* df['Close'].diff(): undefined at the first row
Diff(close) ==
    [i \in 1..Len(close) |->
        IF i = 1 THEN [def |-> FALSE, v |-> 0]
        ELSE [def |-> TRUE, v |-> close[i] - close[i - 1]]]

\* delta.where(delta > 0, 0): a NaN delta fails the test and becomes 0
GainTerms(delta) ==
    [i \in 1..Len(delta) |-> IF delta[i].def /\ delta[i].v > 0 THEN delta[i].v ELSE 0]

\* -delta.where(delta < 0, 0)
LossTerms(delta) ==
    [i \in 1..Len(delta) |-> IF delta[i].def /\ delta[i].v < 0 THEN -delta[i].v ELSE 0]

\* df['RSI'] = 100 - (100 / (1 + (gain / loss)))
RSI(close) ==
    LET delta == Diff(close)
        gain == RollingMean(GainTerms(delta), RSIWindow)
        loss == RollingMean(LossTerms(delta), RSIWindow)
    IN  [i \in 1..Len(close) |->
            FSub(Fin(100, 1), FDiv(Fin(100, 1), FAdd(Fin(1, 1), FDiv(gain[i], loss[i]))))]

Column(df, f) == [i \in 1..Len(df.bars) |-> df.bars[i][f]]

HasColumn(df, f) == \E i \in 1..Len(df.cols) : df.cols[i] = <<f>>

\* apply_technicals(df): [raised, df]. The RSI and the 52-week benchmarks are
\* appended to every row; a header without flat Close/High/Low columns cannot be
\* indexed by field name.
apply_technicals(df) ==
    IF ~(HasColumn(df, "Close") /\ HasColumn(df, "High") /\ HasColumn(df, "Low"))
    THEN [raised |-> TRUE, df |-> df]
    ELSE LET rsi == RSI(Column(df, "Close"))
             hi == RollingMax(Column(df, "High"), Window52, MinPeriods52)
             lo == RollingMin(Column(df, "Low"), Window52, MinPeriods52)
         IN  [raised |-> FALSE,
              df |-> [cols |-> df.cols \o <<<<"RSI">>, <<"52W_H">>, <<"52W_L">>>>,
                      bars |-> [i \in 1..Len(df.bars) |->
                                  [Close |-> df.bars[i].Close, High |-> df.bars[i].High,
                                   Low |-> df.bars[i].Low, RSI |-> rsi[i],
                                   H52 |-> hi[i], L52 |-> lo[i]]]]]

NoTech == [called |-> FALSE, input |-> EmptyDF, raised |-> FALSE, output |-> EmptyDF]

TechRecord(df) ==
    LET r == apply_technicals(df)
    IN  [called |-> TRUE, input |-> df, raised |-> r.raised, output |-> r.df]

(***************************************************************************)
(* The script: session state, sidebar handlers, page routing               *)
(***************************************************************************)
DefaultInterval == "15m"    \* selectbox(..., index=0)
Timeframes == {"15m", "1h", "1d"}

\* Page routing of one script run, with the session state the handlers left:
\* the welcome page, or the terminal page's fetch, annotate and render. R is
\* the set of things the provider may do during the run.
PageRouting(app, ticker, ivl, R) ==
    IF app = "welcome"
    THEN /\ page' = [view |-> "welcome", title |-> <<>>]
         /\ interval' = DefaultInterval
         /\ UNCHANGED <<cache, call, tech>>
    ELSE \E resp \in R :
         LET f == CachedFetch(cache, ticker, ivl, resp)
             data == f.ret.df
         IN  /\ interval' = ivl
             /\ cache' = f.cache
             /\ call' = CallRecord(ticker, ivl, f)
             /\ IF f.ret.raised
                THEN /\ page' = [view |-> "exception", title |-> <<>>]
                     /\ tech' = tech
                ELSE IF ~f.ret.isNone
                THEN /\ tech' = TechRecord(data)
                     \* last = df.iloc[-1]; prev = df.iloc[-2]
                     /\ page' = IF tech'.raised \/ Len(data.bars) < 2
                                THEN [view |-> "exception", title |-> <<>>]
                                ELSE [view |-> "dashboard", title |-> f.ret.symbol]
                ELSE /\ page' = [view |-> "error", title |-> ticker]
                     /\ tech' = tech

\* "Home / Welcome Screen"
Event(op, arg) == [op |-> op, arg |-> arg]

Home(R) ==
    /\ event' = Event("home", <<>>)
    /\ app_state' = "welcome"
    /\ UNCHANGED <<watchlist, active_ticker>>
    /\ PageRouting(app_state', active_ticker', interval, R)

\* "Open Terminal", a button of the welcome page
OpenTerminal(R) ==
    /\ app_state = "welcome"
    /\ event' = Event("open", <<>>)
    /\ app_state' = "terminal"
    /\ UNCHANGED <<watchlist, active_ticker>>
    /\ PageRouting(app_state', active_ticker', interval, R)

\* The Timeframe selectbox of the terminal page
SelectTimeframe(ivl, R) ==
    /\ app_state = "terminal"
    /\ ivl # interval
    /\ event' = Event("timeframe", <<ivl>>)
    /\ UNCHANGED <<app_state, watchlist, active_ticker>>
    /\ PageRouting(app_state', active_ticker', ivl, R)

InList(x, list) == \E i \in 1..Len(list) : list[i] = x

\* list.remove(item): the first occurrence goes
RECURSIVE ListRemove(_, _)
ListRemove(list, x) ==
    IF list = <<>> THEN <<>>
    ELSE IF Head(list) = x THEN Tail(list)
    ELSE <<Head(list)>> \o ListRemove(Tail(list), x)

\* The watchlist button of an item
SelectItem(item, R) ==
    /\ InList(item, watchlist)
    /\ event' = Event("select", item)
    /\ active_ticker' = item
    /\ app_state' = "terminal"
    /\ UNCHANGED watchlist
    /\ PageRouting(app_state', active_ticker', interval, R)

\* The delete button of an item
RemoveItem(item, R) ==
    /\ InList(item, watchlist)
    /\ event' = Event("remove", item)
    /\ watchlist' = ListRemove(watchlist, item)
    /\ UNCHANGED <<app_state, active_ticker>>
    /\ PageRouting(app_state', active_ticker', interval, R)

\* Mutant: the query is appended without the membership test.
WatchlistAddAlways(list, q) == Append(list, q)

\* if search_q not in watchlist: watchlist.append(search_q)
WatchlistAdd(list, q) == IF ~InList(q, list) THEN Append(list, q) ELSE list

\* "Launch Analysis" with `typed` in the search box
LaunchAnalysis(typed, R) ==
    LET search_q == StrUpper(typed)
    IN  /\ event' = Event("launch", search_q)
        /\ IF search_q # <<>>
           THEN /\ watchlist' = WatchlistAdd(watchlist, search_q)
                /\ active_ticker' = search_q
                /\ app_state' = "terminal"
           ELSE UNCHANGED <<app_state, watchlist, active_ticker>>
        /\ PageRouting(app_state', active_ticker', interval, R)

(***************************************************************************)
(* Direct calls of the engine                                              *)
(***************************************************************************)
\* Entries the explored cache holds at most.
MaxCached == 1

\* SmartQuantEngine.fetch_data(user_input, ivl)
FetchCall(user_input, ivl, resp) ==
    LET key == CacheKey(user_input, ivl)
        f == CachedFetch(cache, user_input, ivl, resp)
    IN  /\ key \in DOMAIN cache \/ Cardinality(DOMAIN cache) < MaxCached
        /\ cache' = f.cache
        /\ call' = CallRecord(user_input, ivl, f)
        /\ UNCHANGED <<app_state, watchlist, active_ticker, interval, page, event, tech>>

\* SmartQuantEngine.apply_technicals(df) on the table held in tech.input
ApplyTechnicals ==
    /\ ~tech.called
    /\ tech' = TechRecord(tech.input)
    /\ UNCHANGED <<app_state, watchlist, active_ticker, interval, cache, call, page, event>>

(***************************************************************************)
(* Inputs                                                                  *)
(***************************************************************************)
Bar(c, h, l) == [Close |-> c, High |-> h, Low |-> l]

Throw == [kind |-> "throw", levels |-> 1, bars |-> <<>>]
Ok(levels, bars) == [kind |-> "ok", levels |-> levels, bars |-> bars]

OneRow == <<Bar(2, 2, 1)>>
TwoRows == <<Bar(2, 2, 1), Bar(3, 4, 2)>>

\* What the provider does on the first and on the second request of a call; the
\* second answer is only ever consulted after an empty first one.
Responses(outcomes) == {r \in [1..2 -> outcomes] : r[1] # Ok(1, <<>>) => r[2] = r[1]}

FetchResponses == Responses({Throw, Ok(1, <<>>), Ok(1, TwoRows), Ok(2, TwoRows)})
PageResponses ==
    Responses({Throw, Ok(1, <<>>), Ok(1, OneRow), Ok(2, OneRow), Ok(1, TwoRows),
               Ok(2, TwoRows)})
SessionResponses ==
    {[i \in 1..2 |-> Ok(1, <<>>)],
     [i \in 1..2 |-> IF i = 1 THEN Ok(1, <<>>) ELSE Ok(2, TwoRows)]}

\* fetch(raw_symbol, interval): the intervals of the engine's contract
Intervals == {"5m", "15m", "1h", "1d"}
UserInputs == {<<>>, <<" ", "t", "c", "s">>, <<"a", ".", "b", " ">>}

\* What the user types into the search box
Typed == {<<>>, <<"t", "c", "s">>}

(***************************************************************************)
(* Specifications                                                          *)
(***************************************************************************)
Init ==
    /\ app_state = "welcome"
    /\ watchlist = <<RELIANCE, ZOMATO, TCS, IRFC>>
    /\ active_ticker = RELIANCE
    /\ interval = DefaultInterval
    /\ cache = <<>>
    /\ call = NoCall
    /\ page = [view |-> "welcome", title |-> <<>>]
    /\ event = Event("start", <<>>)
    /\ tech = NoTech

\* The session: every sidebar and page control.
Next ==
    \/ Home(SessionResponses)
    \/ OpenTerminal(SessionResponses)
    \/ \E item \in {RELIANCE, ZOMATO, TCS, IRFC} \cup {StrUpper(t) : t \in Typed} :
          \/ SelectItem(item, SessionResponses)
          \/ RemoveItem(item, SessionResponses)
    \/ \E typed \in Typed : LaunchAnalysis(typed, SessionResponses)

Spec == Init /\ [][Next]_vars

\* The terminal page for one ticker: fetch, annotate, render.
NextPage ==
    \/ Home(PageResponses)
    \/ OpenTerminal(PageResponses)
    \/ \E ivl \in Timeframes : SelectTimeframe(ivl, PageResponses)

SpecPage == Init /\ [][NextPage]_vars

\* The engine's fetch_data called directly.
NextFetch ==
    \/ \E u \in UserInputs, ivl \in Intervals, resp \in FetchResponses :
          FetchCall(u, ivl, resp)
    \/ Tick

SpecFetch == Init /\ [][NextFetch]_vars

\* Tables handed to apply_technicals directly: flat headers, as fetch_data returns.
Table(bars) == ProviderTable(<<>>, 1, bars)

\* Rows of the longest close series explored.
MaxRSIRows == 15

\* Close series over two price levels, every length up to MaxRSIRows.
CloseSeries ==
    UNION {[1..n -> {Bar(1, 1, 1), Bar(2, 2, 2)}] : n \in 1..MaxRSIRows}

InitRSI ==
    /\ app_state = "welcome"
    /\ watchlist = <<RELIANCE, ZOMATO, TCS, IRFC>>
    /\ active_ticker = RELIANCE
    /\ interval = DefaultInterval
    /\ cache = <<>>
    /\ call = NoCall
    /\ page = [view |-> "welcome", title |-> <<>>]
    /\ event = Event("start", <<>>)
    /\ \E bars \in CloseSeries : tech = [NoTech EXCEPT !.input = Table(bars)]

NextTech == ApplyTechnicals

SpecRSI == InitRSI /\ [][NextTech]_vars

\* Rows of the longest short series, and rows explored beyond one full window.
MaxShortRows == 3
Beyond == 1

\* High/low pairs over two price levels, in either order.
HLBars == {Bar(1, h, l) : h \in 1..2, l \in 1..2}

\* Series of n rows, all equal to f but for row p.
SpikeSeries ==
    {[i \in 1..n |-> IF i = p THEN b ELSE f] :
        <<n, p, f, b>> \in
            {x \in ((1..MaxShortRows) \cup (Window52..(Window52 + Beyond)))
                     \X (1..(Window52 + Beyond + 1)) \X HLBars \X HLBars :
                x[2] \in {1, 2, x[1]} /\ x[2] <= x[1]}}

Init52W ==
    /\ app_state = "welcome"
    /\ watchlist = <<RELIANCE, ZOMATO, TCS, IRFC>>
    /\ active_ticker = RELIANCE
    /\ interval = DefaultInterval
    /\ cache = <<>>
    /\ call = NoCall
    /\ page = [view |-> "welcome", title |-> <<>>]
    /\ event = Event("start", <<>>)
    /\ \E bars \in SpikeSeries : tech = [NoTech EXCEPT !.input = Table(bars)]

Spec52W == Init52W /\ [][NextTech]_vars

(***************************************************************************)
(* Properties                                                              *)
(***************************************************************************)
Executed == call.made /\ ~call.hit
Query == Normalize(call.user_input)
Key(c) == <<c.user_input, c.interval>>
Results == {call.queried[i].result : i \in 1..Len(call.queried)}

\* C1: when fetch_data runs for an input whose normalized form Q has no ".", it
\* asks for Q.NS first and for Q only after an empty answer to Q.NS; data for
\* Q.NS ends the search with ResolvedSymbol Q.NS, data for Q after an empty Q.NS
\* gives ResolvedSymbol Q. With a "." in Q exactly one request, for Q, is made.
C1_CandidateOrder ==
    Executed =>
        LET qs == call.queried
        IN  IF \A i \in 1..Len(Query) : Query[i] # "."
            THEN /\ Len(qs) \in 1..2
                 /\ qs[1].ticker = Query \o <<".", "N", "S">>
                 /\ Len(qs) = 2 <=> qs[1].result = "empty"
                 /\ Len(qs) = 2 => qs[2].ticker = Query
                 /\ qs[1].result = "data" =>
                        ~call.ret.isNone /\ call.ret.symbol = Query \o <<".", "N", "S">>
                 /\ (Len(qs) = 2 /\ qs[2].result = "data") =>
                        ~call.ret.isNone /\ call.ret.symbol = Query
            ELSE Len(qs) = 1 /\ qs[1].ticker = Query

\* " tcs": TCS.NS came back empty, TCS had data, and TCS is the resolved symbol.
C1_Witness ==
    /\ Executed
    /\ call.user_input = <<" ", "t", "c", "s">>
    /\ Len(call.queried) = 2
    /\ call.queried[2].result = "data"
    /\ call.ret.symbol = TCS

\* C2: fetch_data never raises. When every request of the call came back empty
\* it returns (None, normalized symbol); when a request threw it returns
\* (None, user_input).
C2_NeverRaises ==
    call.made =>
        /\ ~call.ret.raised
        /\ (Executed /\ Results = {"empty"}) =>
               call.ret.isNone /\ call.ret.symbol = Query
        /\ (Executed /\ "throw" \in Results) =>
               call.ret.isNone /\ call.ret.symbol = call.user_input

\* " tcs": the second request threw, and the raw input comes back with None.
C2_Witness ==
    /\ Executed
    /\ call.user_input = <<" ", "t", "c", "s">>
    /\ Len(call.queried) = 2
    /\ call.queried[2].result = "throw"
    /\ call.ret.isNone
    /\ call.ret.symbol = <<" ", "t", "c", "s">>

\* C3 as stated: two calls with the same (symbol, interval) within the ttl cost
\* exactly one provider request in total.
C3_ExactlyOneNetworkCall ==
    (call.made /\ call.hit /\ Key(call) \in DOMAIN cache) =>
        cache[Key(call)].requests + Len(call.queried) = 1

\* C3, amended: a call whose (symbol, interval) has an entry younger than the ttl
\* is served from it with no provider request, whatever the first call returned;
\* any other call runs one candidate sequence (one or two requests, each
\* candidate once) and its return value is stored under its arguments.
C3_OneAttemptSequence ==
    [][call' # call =>
        LET k == Key(call')
        IN  IF k \in DOMAIN cache /\ cache[k].age < 60
            THEN /\ call'.hit
                 /\ call'.queried = <<>>
                 /\ call'.ret = cache[k].value
                 /\ cache[k].requests \in 1..2
                 /\ cache' = cache
            ELSE /\ ~call'.hit
                 /\ Len(call'.queried) \in 1..2
                 /\ \A i, j \in 1..Len(call'.queried) :
                        i # j => call'.queried[i].ticker # call'.queried[j].ticker
                 /\ k \in DOMAIN cache'
                 /\ cache'[k] = [value |-> call'.ret, age |-> 0,
                                 requests |-> Len(call'.queried)]]_vars

\* A failure marker that took two requests is served again from the cache.
C3_Witness ==
    /\ call.made
    /\ call.hit
    /\ call.queried = <<>>
    /\ call.ret.isNone
    /\ Key(call) \in DOMAIN cache
    /\ cache[Key(call)].requests = 2

C5_FlatColumns ==
    [][page'.view # "welcome" =>
        IF call'.ret.isNone
        THEN tech' = tech /\ page'.view = "error"
        ELSE /\ tech'.called
             /\ tech'.input = call'.ret.df
             /\ Len(tech'.input.cols) = Len(Fields)
             /\ \A i \in 1..Len(Fields) : tech'.input.cols[i] = <<Fields[i]>>]_vars

\* A two-level answer was fetched, annotated and rendered.
C5_Witness ==
    /\ Executed
    /\ \E i \in 1..Len(call.queried) : call.queried[i].header = 2
    /\ tech.called
    /\ tech.input = call.ret.df
    /\ ~tech.raised
    /\ page.view = "dashboard"

\* C6: every intraday interval is sent with a bounded lookback period and only
\* the daily interval with "max"; the period depends on the interval alone.
C6_ShorterLookback ==
    call.made =>
        \A i \in 1..Len(call.queried) :
            /\ call.queried[i].interval = call.interval
            /\ call.queried[i].period = "max" <=> call.interval = "1d"
            /\ \A j \in 1..Len(call.queried) :
                   call.queried[j].period = call.queried[i].period

Closes == [i \in 1..Len(tech.input.bars) |-> tech.input.bars[i].Close]

\* Rows 2..i carry a price delta; the 14 most recent of them end at row i.
Rose(i) == \E j \in (i - 13)..i : Closes[j] > Closes[j - 1]
Fell(i) == \E j \in (i - 13)..i : Closes[j] < Closes[j - 1]

\* C7: the RSI is within [0,100] wherever it is defined; it is undefined at a row
\* with fewer than 14 price deltas behind it; with 14 deltas it is exactly 100
\* when the average loss is 0 and the average gain positive, and undefined when
\* both averages are 0.
C7_RSIRange ==
    (tech.called /\ ~tech.raised) =>
        \A i \in 1..Len(tech.output.bars) :
            LET r == tech.output.bars[i].RSI
            IN  /\ IsDefined(r) => r.k = "fin" /\ 0 <= r.n /\ r.n <= 100 * r.d
                /\ i - 1 < 14 => ~IsDefined(r)
                /\ (i - 1 >= 14 /\ ~Fell(i) /\ Rose(i)) => r.k = "fin" /\ r.n = 100 * r.d
                /\ (i - 1 >= 14 /\ ~Fell(i) /\ ~Rose(i)) => ~IsDefined(r)

ValidBars(df) == \A i \in 1..Len(df.bars) : df.bars[i].High >= df.bars[i].Low

\* At every row both benchmarks are defined, the high is at least the low, and
\* they are the maximum of High and the minimum of Low over the row and at most
\* the 251 rows before it.
Trailing52(inp, out) ==
    \A i \in 1..Len(inp.bars) :
        LET lo == IF i - 251 < 1 THEN 1 ELSE i - 251
            h == out.bars[i].H52
            l == out.bars[i].L52
        IN  /\ h.k = "fin" /\ l.k = "fin"
            /\ h.n * l.d >= l.n * h.d
            /\ \E j \in lo..i : inp.bars[j].High * h.d = h.n
            /\ \A j \in lo..i : inp.bars[j].High * h.d <= h.n
            /\ \E j \in lo..i : inp.bars[j].Low * l.d = l.n
            /\ \A j \in lo..i : inp.bars[j].Low * l.d >= l.n

\* C8 as stated: for every series of numeric bars the 52-week high is at least
\* the 52-week low at every row, both defined from the first row on and taken
\* over the trailing 252 rows only.
C8_HighAboveLow ==
    (tech.called /\ ~tech.raised) => Trailing52(tech.input, tech.output)

\* C8, amended: the same, for every series whose bars each have high >= low.
C8_HighAboveLowValidBars ==
    (tech.called /\ ~tech.raised /\ ValidBars(tech.input)) =>
        Trailing52(tech.input, tech.output)

\* 253 rows with a high of 2 in the first row only: at the last row the first
\* row has left the window and the 52-week high is 1.
C8_Witness ==
    /\ tech.called
    /\ ~tech.raised
    /\ ValidBars(tech.input)
    /\ Len(tech.input.bars) = 253
    /\ tech.input.bars[1].High = 2
    /\ tech.output.bars[252].H52 = Fin(2, 1)
    /\ tech.output.bars[253].H52 = Fin(1, 1)

\* C9: a script run on the terminal page shows the error message after a failure
\* marker and the full dashboard after any fetched series; it never ends in an
\* exception.
C9_NoPartialSuccess ==
    /\ page.view \in {"welcome", "error", "dashboard"}
    /\ page.view = "error" => call.ret.isNone
    /\ page.view = "dashboard" =>
           ~call.ret.isNone /\ tech.called /\ tech.input = call.ret.df

NoDuplicates(list) == \A i, j \in 1..Len(list) : i # j => list[i] # list[j]

\* C10: the watchlist never holds a string twice, app_state is "welcome" or
\* "terminal", removing an item takes that item out of the watchlist and leaves
\* active_ticker and app_state alone, and Launch Analysis with an empty query
\* leaves the session state as it was.
C10_SessionInvariant ==
    [][/\ NoDuplicates(watchlist) /\ NoDuplicates(watchlist')
       /\ app_state \in {"welcome", "terminal"}
       /\ app_state' \in {"welcome", "terminal"}
       /\ event'.op = "remove" =>
              /\ active_ticker' = active_ticker
              /\ app_state' = app_state
              /\ Len(watchlist') = Len(watchlist) - 1
              /\ \A i \in 1..Len(watchlist') : watchlist'[i] # event'.arg
       /\ (event'.op = "launch" /\ event'.arg = <<>>) =>
              /\ active_ticker' = active_ticker
              /\ app_state' = app_state
              /\ watchlist' = watchlist]_vars

\* TCS was removed and launched again: it is back once, at the end.
C10_Witness ==
    /\ event.op = "launch"
    /\ event.arg = TCS
    /\ watchlist = <<RELIANCE, ZOMATO, IRFC, TCS>>
    /\ active_ticker = TCS
    /\ app_state = "terminal"

====
